---------------------------- MODULE Spec2Model ----------------------------
(***************************************************************************)
(* De-FIR backend: the submission verification pipeline                    *)
(* (POST /api/submitFIR in backend/server.js), the services it calls       *)
(* (OCR, STT, ML similarity, IPFS, blockchain client) and the FIRRegistry  *)
(* contract.                                                               *)
(*                                                                         *)
(* Texts are sequences of one-character strings, so that the regular       *)
(* expression clean-ups, the tokenizer and the edit distance are computed  *)
(* character by character as the code computes them.                       *)
(***************************************************************************)
EXTENDS Integers, Sequences, FiniteSets, TLC

(***************************************************************************)
(* Bounds of the model.                                                    *)
(***************************************************************************)
\* Longest text, in vocabulary words, handed to the scorer on its own.
MaxWords == 2
\* Number of submissions handled one after the other.
MaxRuns == 1

(***************************************************************************)
(* Characters and strings                                                  *)
(***************************************************************************)
LowerCase ==
  <<"a","b","c","d","e","f","g","h","i","j","k","l","m",
    "n","o","p","q","r","s","t","u","v","w","x","y","z">>

UpperCase ==
  <<"A","B","C","D","E","F","G","H","I","J","K","L","M",
    "N","O","P","Q","R","S","T","U","V","W","X","Y","Z">>

Digits == {"0","1","2","3","4","5","6","7","8","9"}

Range(s) == {s[i] : i \in DOMAIN s}

LowerChars == Range(LowerCase)

UpperChars == Range(UpperCase)

\* \w of a JavaScript regular expression: [A-Za-z0-9_]
WordChars == LowerChars \cup UpperChars \cup Digits \cup {"_"}

IsWordChar(c) == c \in WordChars

\* \s of a JavaScript regular expression (the model's texts hold blanks only)
IsSpace(c) == c = " "

\* String.prototype.toLowerCase, one character
LowerOf == [c \in UpperChars |-> LowerCase[CHOOSE i \in DOMAIN UpperCase : UpperCase[i] = c]]

LowerChar(c) == IF c \in UpperChars THEN LowerOf[c] ELSE c

toLowerCase(s) == [i \in DOMAIN s |-> LowerChar(s[i])]

\* The regular-expression replacements below are written position by position
\* (which characters of s survive), not by recursion over the string: TLC's
\* stack does not hold a recursion as deep as the placeholder transcription
\* is long.
Indices(s) == [i \in 1..Len(s) |-> i]

Pick(s, idx) == [k \in 1..Len(idx) |-> s[idx[k]]]

AllSpace(s, a, b) == \A k \in a..b : IsSpace(s[k])

SetMin(S) == CHOOSE x \in S : \A y \in S : x <= y

\* .replace(/\s+/g, ' '): of a run of white space the first blank stays
CollapseSpaces(s) ==
  LET Kept(i) == ~IsSpace(s[i]) \/ i = 1 \/ ~IsSpace(s[i - 1])
  IN  Pick(s, SelectSeq(Indices(s), Kept))

\* .trim()
Trim(s) ==
  LET nonSpace == {i \in DOMAIN s : ~IsSpace(s[i])}
      first == CHOOSE i \in nonSpace : AllSpace(s, 1, i - 1)
      last == CHOOSE i \in nonSpace : AllSpace(s, i + 1, Len(s))
  IN  IF nonSpace = {} THEN <<>> ELSE SubSeq(s, first, last)

\* .replace(/\s+([P])/g, '$1'): a run of white space in front of a character of P goes
RemoveSpaceBefore(s, P) ==
  LET Kept(i) ==
        ~(IsSpace(s[i]) /\ \E j \in (i + 1)..Len(s) : s[j] \in P /\ AllSpace(s, i, j - 1))
  IN  Pick(s, SelectSeq(Indices(s), Kept))

\* .replace(/([P])\s+/g, '$1 '): of a run of white space after a character of P
\* the first blank stays
SingleSpaceAfter(s, P) ==
  LET Kept(i) ==
        ~(IsSpace(s[i]) /\ \E r \in 2..(i - 1) : s[r - 1] \in P /\ AllSpace(s, r, i))
  IN  Pick(s, SelectSeq(Indices(s), Kept))

\* the pieces lo..hi of a sequence of sequences, concatenated
RECURSIVE Flatten(_, _, _)
Flatten(pieces, lo, hi) ==
  IF lo > hi THEN <<>>
  ELSE IF lo = hi THEN pieces[lo]
  ELSE LET mid == (lo + hi) \div 2
       IN  Flatten(pieces, lo, mid) \o Flatten(pieces, mid + 1, hi)

\* words joined by single blanks
RECURSIVE JoinWords(_)
JoinWords(ws) ==
  IF ws = <<>> THEN <<>>
  ELSE IF Len(ws) = 1 THEN ws[1]
  ELSE ws[1] \o <<" ">> \o JoinWords(Tail(ws))

(***************************************************************************)
(* OCRService.cleanText and STTService.cleanTranscription                  *)
(***************************************************************************)
OcrPunctuation == {".", ",", "!", "?", ";", ":"}

OcrKeptChar(c) == IsWordChar(c) \/ IsSpace(c) \/ c \in OcrPunctuation \cup {"-", "(", ")"}

ocrCleanText(text) ==
  LET s1 == Trim(CollapseSpaces(text))
      s2 == SelectSeq(s1, OcrKeptChar)
      s3 == RemoveSpaceBefore(s2, OcrPunctuation)
      s4 == SingleSpaceAfter(s3, OcrPunctuation)
  IN  Trim(CollapseSpaces(s4))

SentenceEnd == {".", "!", "?"}

\* .replace(/([.!?])\s*([a-z])/g, '$1 $2'): one blank between the end of a
\* sentence and the lower-case letter that follows it
SpaceAfterSentence(s) ==
  LET BeforeLower(p) ==
        \E q \in (p + 1)..Len(s) : s[q] \in LowerChars /\ AllSpace(s, p + 1, q - 1)
      Matched(p) == s[p] \in SentenceEnd /\ BeforeLower(p)
      Swallowed(i) ==
        IsSpace(s[i]) /\ \E p \in 1..(i - 1) : Matched(p) /\ AllSpace(s, p + 1, i)
      pieces == [i \in 1..Len(s) |->
                   IF Matched(i) THEN <<s[i], " ">>
                   ELSE IF Swallowed(i) THEN <<>>
                   ELSE <<s[i]>>]
  IN  Flatten(pieces, 1, Len(s))

cleanTranscription(text) ==
  LET s1 == SpaceAfterSentence(CollapseSpaces(text))
      s2 == RemoveSpaceBefore(s1, {".", "!", "?", ",", ":", ";"})
      s3 == SingleSpaceAfter(s2, {".", "!", "?", ",", ":", ";"})
  IN  Trim(s3)

(***************************************************************************)
(* MLService: text clean-up, tokenizer, stop words                         *)
(***************************************************************************)
\* MLService.cleanText
cleanText(text) ==
  LET lower == toLowerCase(text)
      noPunct == [i \in DOMAIN lower |->
                    IF IsWordChar(lower[i]) \/ IsSpace(lower[i]) THEN lower[i] ELSE " "]
  IN  Trim(CollapseSpaces(noPunct))

\* natural.WordTokenizer.tokenize: split at runs of non-word characters,
\* empty pieces discarded
tokenize(s) ==
  LET IsStart(i) == IsWordChar(s[i]) /\ (i = 1 \/ ~IsWordChar(s[i - 1]))
      \* the token runs up to the next non-word character, or to the end
      EndOf(i) == SetMin({j \in i..Len(s) : j = Len(s) \/ ~IsWordChar(s[j + 1])})
      starts == SelectSeq(Indices(s), IsStart)
  IN  [k \in 1..Len(starts) |-> SubSeq(s, starts[k], EndOf(starts[k]))]

stopWords ==
  {
    <<"t","h","e">>, <<"a">>, <<"a","n">>, <<"a","n","d">>, <<"o","r">>, <<"b","u","t">>,
    <<"i","n">>, <<"o","n">>, <<"a","t">>, <<"t","o">>, <<"f","o","r">>, <<"o","f">>,
    <<"w","i","t","h">>, <<"b","y">>, <<"i","s">>, <<"a","r","e">>, <<"w","a","s">>,
    <<"w","e","r","e">>, <<"b","e">>, <<"b","e","e","n">>, <<"b","e","i","n","g">>,
    <<"h","a","v","e">>, <<"h","a","s">>, <<"h","a","d">>, <<"d","o">>, <<"d","o","e","s">>,
    <<"d","i","d">>, <<"w","i","l","l">>, <<"w","o","u","l","d">>, <<"c","o","u","l","d">>,
    <<"s","h","o","u","l","d">>, <<"m","a","y">>, <<"m","i","g","h","t">>, <<"m","u","s","t">>,
    <<"c","a","n">>, <<"t","h","i","s">>, <<"t","h","a","t">>, <<"t","h","e","s","e">>,
    <<"t","h","o","s","e">>, <<"i">>, <<"y","o","u">>, <<"h","e">>, <<"s","h","e">>,
    <<"i","t">>, <<"w","e">>, <<"t","h","e","y">>, <<"m","e">>, <<"h","i","m">>,
    <<"h","e","r">>, <<"u","s">>, <<"t","h","e","m">>, <<"m","y">>, <<"y","o","u","r">>,
    <<"h","i","s">>, <<"i","t","s">>, <<"o","u","r">>, <<"t","h","e","i","r">>
  }

IsContentWord(token) == token \notin stopWords /\ Len(token) > 2

removeStopWords(tokens) == SelectSeq(tokens, IsContentWord)

(***************************************************************************)
(* MLService: the three metrics of the local ensemble                      *)
(*                                                                         *)
(* JavaScript numbers are kept exact: a quotient is a pair of integers and *)
(* Math.round of the weighted sum is found by comparing squares, so no     *)
(* rounding error of the floating point unit is modelled.  NaN is the one  *)
(* non-number the code can produce (0 / 0 in the Jaccard quotient).        *)
(***************************************************************************)
NaN == -999

IsNaN(x) == x = NaN

\* x >= y of JavaScript: false as soon as one side is NaN
Ge(x, y) == ~IsNaN(x) /\ ~IsNaN(y) /\ x >= y

Max(a, b) == IF a >= b THEN a ELSE b

Min(a, b) == IF a <= b THEN a ELSE b

Count(word, words) == Cardinality({i \in DOMAIN words : words[i] = word})

\* a Jaccard quotient over the first text's words only
calculateJaccardContainment(words1, words2) ==
  LET set1 == Range(words1)
      set2 == Range(words2)
      intersection == {x \in set1 : x \in set2}
  IN  [num |-> Cardinality(intersection), den |-> Cardinality(set1)]

\* intersection.size / union.size, as the pair of the two sizes
calculateJaccardSimilarity(words1, words2) ==
  LET set1 == Range(words1)
      set2 == Range(words2)
      intersection == {x \in set1 : x \in set2}
      union == set1 \cup set2
  IN  [num |-> Cardinality(intersection), den |-> Cardinality(union)]

\* dotProduct / (magnitude1 * magnitude2), as the dot product and the two
\* squared magnitudes; 0 when a magnitude is 0
calculateCosineSimilarity(words1, words2) ==
  LET allWords == Range(words1) \cup Range(words2)
      Sum[S \in SUBSET allWords] ==
        IF S = {} THEN [dot |-> 0, sq1 |-> 0, sq2 |-> 0]
        ELSE LET w == CHOOSE x \in S : TRUE
                 rest == Sum[S \ {w}]
                 v1 == Count(w, words1)
                 v2 == Count(w, words2)
             IN  [dot |-> rest.dot + v1 * v2,
                  sq1 |-> rest.sq1 + v1 * v1,
                  sq2 |-> rest.sq2 + v2 * v2]
  IN  Sum[allWords]

\* one row of the matrix: matrix[i][0] = i, then a cell from its three neighbours
RECURSIVE LevenshteinRow(_, _, _, _)
LevenshteinRow(prev, row, ch, str1) ==
  LET j == Len(row) IN
  IF j > Len(str1) THEN row
  ELSE LET cell == IF ch = str1[j]
                     THEN prev[j]
                     ELSE Min(prev[j] + 1, Min(row[j] + 1, prev[j + 1] + 1))
       IN  LevenshteinRow(prev, Append(row, cell), ch, str1)

\* rows lo..hi of the matrix, from the row above lo
RECURSIVE LevenshteinRows(_, _, _, _, _)
LevenshteinRows(prev, lo, hi, str1, str2) ==
  IF lo > hi THEN prev
  ELSE IF lo = hi THEN LevenshteinRow(prev, <<lo>>, str2[lo], str1)
  ELSE LET mid == (lo + hi) \div 2
           upper == LevenshteinRows(prev, lo, mid, str1, str2)
       IN  \* the upper half is computed first, as the loop over i does
           IF Len(upper) = Len(prev)
             THEN LevenshteinRows(upper, mid + 1, hi, str1, str2)
             ELSE upper

\* matrix[str2.length][str1.length]
calculateLevenshteinDistance(str1, str2) ==
  LevenshteinRows([j \in 1..(Len(str1) + 1) |-> j - 1], 1, Len(str2), str1, str2)[Len(str1) + 1]

findCommonWords(words1, words2) == {w \in Range(words1) : w \in Range(words2)}

\* Math.round(cosine * 100)
RoundedPercent(cos) ==
  IF cos.sq1 = 0 \/ cos.sq2 = 0 THEN 0
  ELSE Cardinality({k \in 1..100 :
         (200 * cos.dot) * (200 * cos.dot) >= (2 * k - 1) * (2 * k - 1) * cos.sq1 * cos.sq2})

\* k - 1/2 <= jaccard * 40 + cosine * 40 + lev / 100 * 20, for jaccard = I / U,
\* cosine = dot / sqrt(sq1 * sq2) and lev = Math.max(0, 100 - distance), all
\* multiplied by 10 * U:  N <= 400 * U * cosine
SumReaches(k, jac, cos, lev) ==
  LET U == jac.den
      N == 10 * U * k - 5 * U - 400 * jac.num - 2 * lev * U
      X == 400 * U * cos.dot
  IN  \/ N <= 0
      \/ /\ X > 0
         /\ N <= 400 * U
         /\ X * X >= N * N * cos.sq1 * cos.sq2

\* a weighted sum that leaves the edit distance out (its term always 20)
WeightedScoreWithoutDistance(jac, cos, distance) ==
  IF jac.den = 0 THEN NaN
  ELSE Cardinality({k \in 1..100 : SumReaches(k, jac, cos, 100)})

\* Math.round((jaccard * 40) + (cosine * 40) + (Math.max(0, 100 - distance) / 100 * 20))
WeightedScore(jac, cos, distance) ==
  IF jac.den = 0 THEN NaN
  ELSE Cardinality({k \in 1..100 : SumReaches(k, jac, cos, Max(0, 100 - distance))})

\* Math.min(100, Math.max(0, x)): NaN stays NaN
Clamp(x) == IF IsNaN(x) THEN NaN ELSE Min(100, Max(0, x))

calculateSimilarityFallback(ocrText, sttText) ==
  LET ocrWords == removeStopWords(tokenize(toLowerCase(ocrText)))
      sttWords == removeStopWords(tokenize(toLowerCase(sttText)))
      jaccardSimilarity == calculateJaccardSimilarity(ocrWords, sttWords)
      cosineSimilarity == calculateCosineSimilarity(ocrWords, sttWords)
      levenshteinDistance == calculateLevenshteinDistance(ocrText, sttText)
      commonWords == findCommonWords(ocrWords, sttWords)
      finalScore == WeightedScore(jaccardSimilarity, cosineSimilarity, levenshteinDistance)
  IN  [score |-> Clamp(finalScore),
       method |-> "nlp-fallback",
       jaccardSimilarity |->
         IF jaccardSimilarity.den = 0 THEN NaN
         ELSE (200 * jaccardSimilarity.num + jaccardSimilarity.den)
                \div (2 * jaccardSimilarity.den),
       cosineSimilarity |-> RoundedPercent(cosineSimilarity),
       levenshteinDistance |-> levenshteinDistance,
       commonWords |-> Cardinality(commonWords)]

(***************************************************************************)
(* MLService.calculateSimilarity: the external scoring process first, the  *)
(* local ensemble when its promise rejects                                 *)
(***************************************************************************)
NULL == [null |-> TRUE]

\* What the python3 child process can do.  similarity_score is carried in
\* thousandths, so that Math.round(similarity_score * 100) has something to round.
PythonOutcomes ==
  {[event |-> "error"],                        \* the process cannot be spawned
   [event |-> "close", code |-> 1],            \* non-zero exit code
   [event |-> "close", code |-> 0, parsed |-> FALSE],   \* JSON.parse throws
   [event |-> "close", code |-> 0, parsed |-> TRUE, hasScore |-> FALSE],
   [event |-> "close", code |-> 0, parsed |-> TRUE, hasScore |-> TRUE, thousandths |-> 744],
   [event |-> "close", code |-> 0, parsed |-> TRUE, hasScore |-> TRUE, thousandths |-> 745],
   [event |-> "close", code |-> 0, parsed |-> TRUE, hasScore |-> TRUE, thousandths |-> 1500]}

PythonRejects(py) ==
  \/ py.event = "error"
  \/ py.code # 0
  \/ ~py.parsed

\* resolve({ score: Math.round(result.similarity_score * 100), method: 'python-ml', ...result })
calculateSimilarityWithPython(py) ==
  [score |-> IF py.hasScore THEN (py.thousandths + 5) \div 10 ELSE NaN,
   method |-> "python-ml",
   jaccardSimilarity |-> NULL,
   cosineSimilarity |-> NULL,
   levenshteinDistance |-> NULL,
   commonWords |-> NULL]

calculateSimilarity(ocrText, sttText, py) ==
  LET cleanOcrText == cleanText(ocrText)
      cleanSttText == cleanText(sttText)
      similarityResult ==
        IF PythonRejects(py)
          THEN calculateSimilarityFallback(cleanOcrText, cleanSttText)
          ELSE calculateSimilarityWithPython(py)
  IN  [score |-> similarityResult.score,
       details |-> [method |-> similarityResult.method,
                    ocrLength |-> Len(cleanOcrText),
                    sttLength |-> Len(cleanSttText),
                    commonWords |-> similarityResult.commonWords,
                    jaccardSimilarity |-> similarityResult.jaccardSimilarity,
                    cosineSimilarity |-> similarityResult.cosineSimilarity,
                    levenshteinDistance |-> similarityResult.levenshteinDistance]]

(***************************************************************************)
(* STTService.transcribeWithFallback: the placeholder transcription         *)
(***************************************************************************)
mockText ==
  JoinWords(<<
    <<"T","h","i","s">>,
    <<"i","s">>,
    <<"a">>,
    <<"m","o","c","k">>,
    <<"t","r","a","n","s","c","r","i","p","t","i","o","n",".">>,
    <<"P","l","e","a","s","e">>,
    <<"c","o","n","f","i","g","u","r","e">>,
    <<"G","o","o","g","l","e">>,
    <<"C","l","o","u","d">>,
    <<"S","p","e","e","c","h","-","t","o","-","T","e","x","t">>,
    <<"f","o","r">>,
    <<"a","c","t","u","a","l">>,
    <<"t","r","a","n","s","c","r","i","p","t","i","o","n",".">>,
    <<"A","u","d","i","o">>,
    <<"f","i","l","e">>,
    <<"p","r","o","c","e","s","s","e","d">>,
    <<"s","u","c","c","e","s","s","f","u","l","l","y",".">>
  >>)

\* confidence: 50, // Low confidence for mock
MockConfidence == 50

\* a fallback that reports itself as the cloud recognizer
transcribeWithFallbackUntagged ==
  [text |-> mockText,
   confidence |-> 95,
   audioHash |-> "sha256(audio)",
   provider |-> "google-cloud"]

transcribeWithFallback ==
  [text |-> mockText,
   confidence |-> MockConfidence,
   audioHash |-> "sha256(audio)",
   provider |-> "fallback"]

(***************************************************************************)
(* State                                                                   *)
(***************************************************************************)
VARIABLES
  \* FIRRegistry.sol
  firCounter,          \* _firCounter
  firs,                \* mapping(uint256 => FIR), the entries that exist
  victimFIRs,          \* mapping(address => uint256[])
  roles,               \* AccessControl: role -> members
  txCount,             \* mined transactions; stands for block.timestamp and tx.hash
  \* IPFSService and the storage network
  ipfsClient,          \* this.client is set (local node)
  pinataConfigured,    \* this.pinataApiKey && this.pinataSecretKey
  ipfsStore,           \* cid -> pinned content
  \* STTService
  sttClient,           \* this.client is set (Google Cloud Speech)
  \* process.env.SIMILARITY_THRESHOLD, after parseInt (NaN when unset)
  SIMILARITY_THRESHOLD,
  \* one run of app.post('/api/submitFIR')
  runs,                \* submissions received so far
  pc,                  \* where the handler is suspended
  hung,                \* the awaited call never settles
  victimAddress,       \* req.body.victimAddress
  files,               \* temporary files of this submission that exist on disk
  ocrResult,
  sttResult,
  similarityResult,
  firData,
  ipfsResult,
  blockchainResult,
  response,            \* what res.json / res.status(...).json sent
  started,             \* stages started by this run, in order
  ledgerWrites,        \* transactions this run submitted, in order
  failedStage,         \* the step whose exception reached the catch block
  unlinkFailed,        \* some fs.unlink call of this run was rejected
  clientConnected,     \* the connection the request came in on is open
  \* MLService.calculateSimilarity called on its own
  unitOcrText,
  unitSttText,
  unitPython,          \* what the python3 child process did in that call
  unitResult,
  \* IPFSService.uploadToIPFS and fetchFromIPFS called on their own
  unitBundle,          \* the data last given to uploadToIPFS
  unitUpload,          \* what that call returned or threw
  unitFetch,           \* what the last fetchFromIPFS returned or threw
  \* a transaction sent to the contract, or a request of a query endpoint
  lastCall             \* the last one, with its outcome

ledgerVars == <<firCounter, firs, victimFIRs, roles, txCount>>

configVars == <<ipfsClient, pinataConfigured, sttClient, SIMILARITY_THRESHOLD>>

runVars ==
  <<runs, pc, hung, victimAddress, files, ocrResult, sttResult, similarityResult,
    firData, ipfsResult, blockchainResult, response, started, ledgerWrites, failedStage,
    unlinkFailed, clientConnected>>

unitVars ==
  <<unitOcrText, unitSttText, unitPython, unitResult, unitBundle, unitUpload, unitFetch,
    lastCall>>

vars == <<ledgerVars, configVars, ipfsStore, runVars, unitVars>>

(***************************************************************************)
(* FIRRegistry.sol                                                         *)
(***************************************************************************)
\* this.wallet, this.govWallet, the deployer of the contract, two claimants
Wallet == "wallet"

GovWallet == "govWallet"

Deployer == "deployer"

Claimants == {"0xA1", "0xA2"}

Addresses == {Wallet, GovWallet, Deployer} \cup Claimants

\* require(_similarityScore <= 100, ...)
MaxSimilarityScore == 100

\* verified: _similarityScore >= 75
ContractAutoVerifyScore == 75

\* a createFIR without its second require
createFIRRevertsCidOnly(sender, ipfsCid, similarityScore) ==
  \/ sender \notin roles.VICTIM_ROLE
  \/ Len(ipfsCid) = 0

\* onlyRole(VICTIM_ROLE), the two require statements of createFIR
createFIRReverts(sender, ipfsCid, similarityScore) ==
  \/ sender \notin roles.VICTIM_ROLE
  \/ Len(ipfsCid) = 0
  \/ similarityScore > MaxSimilarityScore

\* the FIR struct createFIR stores under the incremented counter
NewFIR(sender, ipfsCid, similarityScore) ==
  [id |-> firCounter + 1,
   victim |-> sender,
   ipfsCid |-> ipfsCid,
   timestamp |-> txCount + 1,
   verified |-> similarityScore >= ContractAutoVerifyScore,
   exists |-> TRUE,
   similarityScore |-> similarityScore]

\* a createFIR that stores a known identifier under the id it already has
ContractCreateFIRDeduplicating(sender, ipfsCid, similarityScore) ==
  IF \E i \in DOMAIN firs : firs[i].ipfsCid = ipfsCid
    THEN /\ txCount' = txCount + 1
         /\ UNCHANGED <<firCounter, firs, victimFIRs, roles>>
    ELSE /\ firCounter' = firCounter + 1
         /\ firs' = (firCounter + 1 :> NewFIR(sender, ipfsCid, similarityScore)) @@ firs
         /\ victimFIRs' = [victimFIRs EXCEPT ![sender] = Append(@, firCounter + 1)]
         /\ txCount' = txCount + 1
         /\ UNCHANGED roles

\* createFIR, mined
ContractCreateFIR(sender, ipfsCid, similarityScore) ==
  /\ firCounter' = firCounter + 1
  /\ firs' = (firCounter + 1 :> NewFIR(sender, ipfsCid, similarityScore)) @@ firs
  /\ victimFIRs' = [victimFIRs EXCEPT ![sender] = Append(@, firCounter + 1)]
  /\ txCount' = txCount + 1
  /\ UNCHANGED roles

\* onlyValidFIR: firs[_id].exists
FIRExists(id) == id \in DOMAIN firs /\ firs[id].exists

\* a setVerification without onlyValidFIR
setVerificationRevertsRoleOnly(sender, id) ==
  sender \notin roles.GOV_ROLE

\* onlyRole(GOV_ROLE) onlyValidFIR(_id)
setVerificationReverts(sender, id) ==
  \/ sender \notin roles.GOV_ROLE
  \/ ~FIRExists(id)

\* a setVerification that also stamps the record with the time of the decision
ContractSetVerificationStamping(id, verified) ==
  /\ firs' = [firs EXCEPT ![id].verified = verified, ![id].timestamp = txCount + 1]
  /\ txCount' = txCount + 1
  /\ UNCHANGED <<firCounter, victimFIRs, roles>>

\* setVerification, mined
ContractSetVerification(id, verified) ==
  /\ firs' = [firs EXCEPT ![id].verified = verified]
  /\ txCount' = txCount + 1
  /\ UNCHANGED <<firCounter, victimFIRs, roles>>

(***************************************************************************)
(* The environment of one run                                              *)
(***************************************************************************)
\* Text the OCR engine can recognize in the image (before OCRService.cleanText)
OcrRawTexts ==
  {<<"T","h","e"," ","c","a","t"," "," ","d","o","g","#">>,
   <<"t","h","e">>}

\* response.results of the speech API: one result with one alternative
SttRecognitions ==
  {[transcript |-> <<"c","a","t"," ","d","o","g">>, confidencePercent |-> 95],
   [transcript |-> <<"o","f">>, confidencePercent |-> 40]}

\* fs.unlink of the uploaded image and of the uploaded audio: does it succeed
UnlinkOutcomes == [image : BOOLEAN, audio : BOOLEAN]

\* What the JSON-RPC endpoint and the chain do with one write
RpcOutcomes == {"ok", "estimateFails", "sendFails", "reverted", "waitFails", "waitHangs"}

Terminal == {"Done", "Failed", "Rejected"}

\* parseInt(process.env.SIMILARITY_THRESHOLD) || 75
DefaultThreshold == 75

Threshold ==
  IF IsNaN(SIMILARITY_THRESHOLD) \/ SIMILARITY_THRESHOLD = 0
    THEN DefaultThreshold
    ELSE SIMILARITY_THRESHOLD

\* ethers encodes a uint256 argument: NaN and negative numbers throw
EncodableUint(x) == ~IsNaN(x) /\ x >= 0

\* JSON.stringify writes NaN as null
JsonNull == -998

\* a JSON text is kept as the value it denotes, wrapped in a record, so that
\* a text and a parsed object are different things
JSONStringify(data) ==
  [json |-> [data EXCEPT !.similarityScore = IF IsNaN(@) THEN JsonNull ELSE @]]

IsJsonText(x) == DOMAIN x = {"json"}

\* JSON.parse(x): an argument that is not a string is turned into one first,
\* and "[object Object]" is not JSON
JSONParse(x) ==
  IF IsJsonText(x) THEN [ok |-> TRUE, value |-> x.json]
  ELSE [ok |-> FALSE, error |-> "SyntaxError"]

\* response.data of axios.get: a body that is JSON arrives parsed
AxiosResponseData(body) == IF IsJsonText(body) THEN body.json ELSE body

\* the content identifier is a function of the published bytes
CidOf(content) == <<"Qm", content>>

(***************************************************************************)
(* The catch block of the handler (server.js 205-220)                      *)
(***************************************************************************)
\* a catch block that removes the image only
CatchBlockFilesImageOnly(filesNow, u) ==
  IF "image" \in filesNow /\ u.image THEN filesNow \ {"image"} ELSE filesNow

\* Both unlink calls share one try: when the first throws, the second is not made.
\* fs.unlink of a file that is not there throws.
CatchBlockFiles(filesNow, u) ==
  IF "image" \in filesNow /\ u.image
    THEN IF "audio" \in filesNow /\ u.audio
           THEN filesNow \ {"image", "audio"}
           ELSE filesNow \ {"image"}
    ELSE filesNow

\* a handler that swallows the exception and goes on to the disposal step
FailSwallowed(stage, filesNow, u, unlinkThrew) ==
  /\ pc' = "Cleanup"
  /\ failedStage' = "none"
  /\ files' = filesNow
  /\ unlinkFailed' = unlinkThrew
  /\ response' = response

\* the inner try throws (and console.error logs it)
CatchBlockThrows(filesNow, u) ==
  ~("image" \in filesNow /\ u.image /\ "audio" \in filesNow /\ u.audio)

ErrorResponse == [status |-> 500, error |-> "Failed to process FIR submission"]

\* a catch block whose answer names the disposal failure when there is one
FailReportingDisposal(stage, filesNow, u, unlinkThrew) ==
  /\ pc' = "Failed"
  /\ failedStage' = IF CatchBlockThrows(filesNow, u) THEN "disposal" ELSE stage
  /\ files' = CatchBlockFiles(filesNow, u)
  /\ unlinkFailed' = (unlinkThrew \/ CatchBlockThrows(filesNow, u))
  /\ response' = IF CatchBlockThrows(filesNow, u)
                   THEN [status |-> 500, error |-> "Error cleaning up files"]
                   ELSE ErrorResponse

\* the outer catch: error is the exception of the step that threw; the inner
\* try removes the files, its own exception is logged and dropped; then 500
Fail(stage, filesNow, u, unlinkThrew) ==
  /\ pc' = "Failed"
  /\ failedStage' = stage
  /\ files' = CatchBlockFiles(filesNow, u)
  /\ unlinkFailed' = (unlinkThrew \/ CatchBlockThrows(filesNow, u))
  /\ response' = ErrorResponse

(***************************************************************************)
(* app.post('/api/submitFIR'), one action per await                        *)
(***************************************************************************)
\* multer has stored the files, validateFIRSubmission has accepted the
\* address; the handler runs up to its first await
Submit(address, hasImage, hasAudio) ==
  /\ pc \in Terminal \cup {"Idle"}
  /\ ~hung
  /\ runs < MaxRuns
  /\ runs' = runs + 1
  /\ victimAddress' = address
  /\ files' = (IF hasImage THEN {"image"} ELSE {}) \cup (IF hasAudio THEN {"audio"} ELSE {})
  /\ ocrResult' = NULL
  /\ sttResult' = NULL
  /\ similarityResult' = NULL
  /\ firData' = NULL
  /\ ipfsResult' = NULL
  /\ blockchainResult' = NULL
  /\ ledgerWrites' = <<>>
  /\ failedStage' = "none"
  /\ unlinkFailed' = FALSE
  /\ clientConnected' = TRUE
  /\ IF hasImage /\ hasAudio
       THEN /\ pc' = "Extracting"
            /\ started' = <<"extraction">>
            /\ response' = NULL
       ELSE /\ pc' = "Rejected"
            /\ started' = <<>>
            /\ response' = [status |-> 400,
                            error |-> "Both image and audio files are required"]
  /\ UNCHANGED <<ledgerVars, configVars, ipfsStore, hung, unitVars>>

\* ocrService.extractText(imageFile.path)
Extract(preprocessed, recognize, raw, unlinkProcessed, u) ==
  /\ pc = "Extracting"
  /\ ~hung
  /\ LET \* preprocessImage writes <image>_processed.png, or returns the original path
         filesRecognizing == IF preprocessed THEN files \cup {"processed"} ELSE files
     IN  CASE recognize = "hangs" ->
                /\ hung' = TRUE
                /\ files' = filesRecognizing
                /\ UNCHANGED <<pc, failedStage, unlinkFailed, response, ocrResult, started>>
           [] recognize = "throws" ->
                /\ Fail("extraction", filesRecognizing, u, FALSE)
                /\ UNCHANGED <<hung, ocrResult, started>>
           [] recognize = "ok" /\ preprocessed /\ ~unlinkProcessed ->
                \* fs.unlink(processedImagePath) throws
                /\ Fail("extraction", filesRecognizing, u, TRUE)
                /\ UNCHANGED <<hung, ocrResult, started>>
           [] OTHER ->
                /\ files' = filesRecognizing \ {"processed"}
                /\ ocrResult' = [text |-> ocrCleanText(raw),
                                 imageHash |-> "sha256(image)"]
                /\ pc' = "Transcribing"
                /\ started' = Append(started, "transcription")
                /\ UNCHANGED <<hung, failedStage, unlinkFailed, response>>
  /\ UNCHANGED <<ledgerVars, configVars, ipfsStore, runs, victimAddress, sttResult,
                 similarityResult, firData, ipfsResult, blockchainResult, ledgerWrites,
                 unitVars,
                 clientConnected>>

\* transcribeWithGoogleCloud for one recognize response
transcribeWithGoogleCloud(recognition) ==
  [text |-> cleanTranscription(Trim(recognition.transcript \o <<" ">>)),
   confidence |-> recognition.confidencePercent,
   audioHash |-> "sha256(audio)",
   provider |-> "google-cloud"]

\* a transcribeAudio that answers a failed recognize call with the placeholder
TranscribeFallingBack(recognize, recognition, u) ==
  /\ pc = "Transcribing"
  /\ ~hung
  /\ sttResult' = IF sttClient /\ recognize = "ok"
                    THEN transcribeWithGoogleCloud(recognition)
                    ELSE transcribeWithFallback
  /\ pc' = "Scoring"
  /\ started' = Append(started, "scoring")
  /\ UNCHANGED <<files, failedStage, unlinkFailed, response>>
  /\ UNCHANGED <<ledgerVars, configVars, ipfsStore, runs, hung, victimAddress, ocrResult,
                 similarityResult, firData, ipfsResult, blockchainResult, ledgerWrites,
                 unitVars, clientConnected>>

\* sttService.transcribeAudio(audioFile.path)
Transcribe(recognize, recognition, u) ==
  /\ pc = "Transcribing"
  /\ ~hung
  /\ IF sttClient /\ recognize # "ok"
       THEN \* recognize throws, or returns no results
            /\ Fail("transcription", files, u, FALSE)
            /\ UNCHANGED <<sttResult, started>>
       ELSE /\ sttResult' = IF sttClient
                              THEN transcribeWithGoogleCloud(recognition)
                              ELSE transcribeWithFallback
            /\ pc' = "Scoring"
            /\ started' = Append(started, "scoring")
            /\ UNCHANGED <<files, failedStage, unlinkFailed, response>>
  /\ UNCHANGED <<ledgerVars, configVars, ipfsStore, runs, hung, victimAddress, ocrResult,
                 similarityResult, firData, ipfsResult, blockchainResult, ledgerWrites,
                 unitVars,
                 clientConnected>>

\* a firData whose verified flag needs a score above the threshold
NewFirDataStrict(similarity) ==
  [victimAddress |-> victimAddress,
   ocrText |-> ocrResult.text,
   sttText |-> sttResult.text,
   similarityScore |-> similarity.score,
   verified |-> ~IsNaN(similarity.score) /\ similarity.score > Threshold,
   timestamp |-> runs,
   imageHash |-> ocrResult.imageHash,
   audioHash |-> sttResult.audioHash]

\* the firData object of server.js 158-167
NewFirData(similarity) ==
  [victimAddress |-> victimAddress,
   ocrText |-> ocrResult.text,
   sttText |-> sttResult.text,
   similarityScore |-> similarity.score,
   verified |-> Ge(similarity.score, Threshold),
   timestamp |-> runs,
   imageHash |-> ocrResult.imageHash,
   audioHash |-> sttResult.audioHash]

\* mlService.calculateSimilarity(ocrResult.text, sttResult.text), then firData
\* is built and uploadToIPFS is called
Score(py, pythonHangs) ==
  /\ pc = "Scoring"
  /\ ~hung
  /\ IF pythonHangs
       THEN \* the child process never closes
            /\ hung' = TRUE
            /\ UNCHANGED <<pc, similarityResult, firData, started>>
       ELSE LET similarity == calculateSimilarity(ocrResult.text, sttResult.text, py) IN
            /\ similarityResult' = similarity
            /\ firData' = NewFirData(similarity)
            /\ pc' = "Publishing"
            /\ started' = Append(started, "publishing")
            /\ UNCHANGED hung
  /\ UNCHANGED <<ledgerVars, configVars, ipfsStore, runs, victimAddress, files, ocrResult,
                 sttResult, ipfsResult, blockchainResult, response, ledgerWrites,
                 failedStage, unlinkFailed, unitVars,
                 clientConnected>>

\* ipfsService.uploadToIPFS(firData); on success createFIR is called
Publish(storage, u) ==
  /\ pc = "Publishing"
  /\ ~hung
  /\ LET content == JSONStringify(firData)
         cid == CidOf(content)
         \* this.client.add on the local node, else uploadToPinata, else throw
         backend == IF ipfsClient THEN "local"
                    ELSE IF pinataConfigured THEN "pinata" ELSE "none"
     IN  CASE backend # "none" /\ storage = "hangs" ->
                /\ hung' = TRUE
                /\ UNCHANGED <<pc, files, failedStage, unlinkFailed, response, ipfsResult,
                               ipfsStore, started>>
           [] backend # "none" /\ storage = "ok" ->
                /\ ipfsStore' = (cid :> content) @@ ipfsStore
                /\ ipfsResult' = [cid |-> cid, url |-> <<"gateway", cid>>]
                /\ pc' = "Committing"
                /\ started' = Append(started, "createRecord")
                /\ UNCHANGED <<hung, files, failedStage, unlinkFailed, response>>
           [] OTHER ->
                /\ Fail("publishing", files, u, FALSE)
                /\ UNCHANGED <<hung, ipfsResult, ipfsStore, started>>
  /\ UNCHANGED <<ledgerVars, configVars, runs, victimAddress, ocrResult, sttResult,
                 similarityResult, firData, blockchainResult, ledgerWrites, unitVars,
                 clientConnected>>

\* estimateGas passed and the transaction was sent
TxSubmitted(rpc, reverts) == ~reverts /\ rpc \notin {"estimateFails", "sendFails"}

\* the transaction was mined with status 1
TxMined(rpc, reverts) == TxSubmitted(rpc, reverts) /\ rpc \in {"ok", "waitFails"}

\* a createFIR that sends the transaction again when tx.wait() throws
createFIRSubmissionsRetrying(rpc, reverts, cid, score) ==
  LET write == [op |-> "createFIR", from |-> Wallet, ipfsCid |-> cid,
                similarityScore |-> score]
  IN  IF TxSubmitted(rpc, reverts)
        THEN IF rpc = "waitFails" THEN <<write, write>> ELSE <<write>>
        ELSE <<>>

\* the transactions one call of blockchainService.createFIR sends: one
\* victimContract.createFIR(...) once estimateGas has passed, none otherwise
createFIRSubmissions(rpc, reverts, cid, score) ==
  IF TxSubmitted(rpc, reverts)
    THEN <<[op |-> "createFIR", from |-> Wallet, ipfsCid |-> cid, similarityScore |-> score]>>
    ELSE <<>>

\* blockchainService.createFIR(ipfsResult.cid, similarityResult.score, victimAddress)
Commit(rpc, u) ==
  /\ pc = "Committing"
  /\ ~hung
  /\ LET cid == ipfsResult.cid
         score == similarityResult.score
         reverts == ~EncodableUint(score) \/ createFIRReverts(Wallet, cid, score)
     IN  /\ ledgerWrites' = ledgerWrites \o createFIRSubmissions(rpc, reverts, cid, score)
         /\ IF TxMined(rpc, reverts)
              THEN ContractCreateFIR(Wallet, cid, score)
              ELSE UNCHANGED ledgerVars
         /\ CASE TxSubmitted(rpc, reverts) /\ rpc = "waitHangs" ->
                   /\ hung' = TRUE
                   /\ UNCHANGED <<pc, files, failedStage, unlinkFailed, response,
                                  blockchainResult, started>>
              [] TxSubmitted(rpc, reverts) /\ rpc = "ok" ->
                   /\ blockchainResult' = [firId |-> firCounter + 1,
                                           txHash |-> <<"tx", txCount + 1>>]
                   /\ IF firData.verified
                        THEN /\ pc' = "AutoVerifying"
                             /\ started' = Append(started, "setVerified")
                        ELSE /\ pc' = "Cleanup"
                             /\ UNCHANGED started
                   /\ UNCHANGED <<hung, files, failedStage, unlinkFailed, response>>
              [] OTHER ->
                   /\ Fail("createRecord", files, u, FALSE)
                   /\ UNCHANGED <<hung, blockchainResult, started>>
  /\ UNCHANGED <<configVars, ipfsStore, runs, victimAddress, ocrResult, sttResult,
                 similarityResult, firData, ipfsResult, unitVars,
                 clientConnected>>

\* blockchainService.setVerification(blockchainResult.firId, true)
AutoVerify(rpc, u) ==
  /\ pc = "AutoVerifying"
  /\ ~hung
  /\ LET firId == blockchainResult.firId
         reverts == setVerificationReverts(GovWallet, firId)
     IN  /\ ledgerWrites' =
              IF TxSubmitted(rpc, reverts)
                THEN Append(ledgerWrites,
                            [op |-> "setVerification", from |-> GovWallet,
                             id |-> firId, verified |-> TRUE])
                ELSE ledgerWrites
         /\ IF TxMined(rpc, reverts)
              THEN ContractSetVerification(firId, TRUE)
              ELSE UNCHANGED ledgerVars
         /\ CASE TxSubmitted(rpc, reverts) /\ rpc = "waitHangs" ->
                   /\ hung' = TRUE
                   /\ UNCHANGED <<pc, files, failedStage, unlinkFailed, response>>
              [] TxSubmitted(rpc, reverts) /\ rpc = "ok" ->
                   /\ pc' = "Cleanup"
                   /\ UNCHANGED <<hung, files, failedStage, unlinkFailed, response>>
              [] OTHER ->
                   /\ Fail("setVerified", files, u, FALSE)
                   /\ UNCHANGED hung
  /\ UNCHANGED <<configVars, ipfsStore, runs, victimAddress, ocrResult, sttResult,
                 similarityResult, firData, ipfsResult, blockchainResult, started,
                 unitVars,
                 clientConnected>>

\* the object res.json sends (server.js 191-203)
SuccessResponse ==
  [status |-> 200,
   success |-> TRUE,
   firId |-> blockchainResult.firId,
   cid |-> ipfsResult.cid,
   ipfsUrl |-> ipfsResult.url,
   txHash |-> blockchainResult.txHash,
   ocrText |-> ocrResult.text,
   sttText |-> sttResult.text,
   similarityScore |-> similarityResult.score,
   verified |-> firData.verified,
   timestamp |-> firData.timestamp,
   gatewayUrl |-> <<"gateway", ipfsResult.cid>>]

\* await fs.unlink(imageFile.path); await fs.unlink(audioFile.path); res.json(...)
Cleanup(u, c) ==
  /\ pc = "Cleanup"
  /\ ~hung
  /\ IF ~u.image
       THEN Fail("cleanup", files, c, TRUE)
       ELSE IF ~u.audio
         THEN Fail("cleanup", files \ {"image"}, c, TRUE)
         ELSE /\ files' = files \ {"image", "audio"}
              /\ pc' = "Done"
              /\ response' = SuccessResponse
              /\ UNCHANGED <<failedStage, unlinkFailed>>
  /\ UNCHANGED <<ledgerVars, configVars, ipfsStore, runs, hung, victimAddress, ocrResult,
                 sttResult, similarityResult, firData, ipfsResult, blockchainResult,
                 started, ledgerWrites, unitVars, clientConnected>>

\* The client closes the connection while the handler is suspended at an
\* await. The handler registers no listener on req or res and passes no abort
\* signal to its services: nothing but the socket changes.
ClientDisconnects ==
  /\ pc \notin Terminal \cup {"Idle"}
  /\ clientConnected
  /\ clientConnected' = FALSE
  /\ UNCHANGED <<ledgerVars, configVars, ipfsStore, runs, pc, hung, victimAddress, files,
                 ocrResult, sttResult, similarityResult, firData, ipfsResult,
                 blockchainResult, response, started, ledgerWrites, failedStage,
                 unlinkFailed, unitVars>>

(***************************************************************************)
(* IPFSService.uploadToIPFS and fetchFromIPFS called on their own          *)
(***************************************************************************)
\* evidence bundles as the handler builds them
Bundles ==
  [victimAddress : {"0xA1"},
   ocrText : {<<"c","a","t">>},
   sttText : {<<"d","o","g">>},
   similarityScore : {NaN, 19, 75},
   verified : {FALSE},
   timestamp : {1},
   imageHash : {"sha256(image)"},
   audioHash : {"sha256(audio)"}]

\* uploadToIPFS(data) when the local node answers (localUp) or not, and the
\* Pinata API answers (pinataUp) or not
uploadToIPFS(data, localUp, pinataUp) ==
  LET jsonString == JSONStringify(data)
      cid == CidOf(jsonString)
      added == [ok |-> TRUE, cid |-> cid, url |-> <<"gateway", cid>>,
                content |-> jsonString]
  IN  IF ipfsClient
        THEN IF localUp THEN added ELSE [ok |-> FALSE, error |-> "local node"]
      ELSE IF pinataConfigured
        THEN IF pinataUp THEN added ELSE [ok |-> FALSE, error |-> "Pinata"]
      ELSE [ok |-> FALSE, error |-> "No IPFS client available and Pinata not configured"]

\* fetchFromIPFS(cid) when the node or the gateway answers (up) or not
fetchFromIPFS(cid, up) ==
  IF ~up \/ cid \notin DOMAIN ipfsStore THEN [ok |-> FALSE, error |-> "not retrieved"]
  ELSE LET content == IF ipfsClient
                        THEN ipfsStore[cid]                      \* client.cat(cid)
                        ELSE AxiosResponseData(ipfsStore[cid])   \* axios.get(gateway)
       IN  JSONParse(content)

Upload(data, localUp, pinataUp) ==
  LET result == uploadToIPFS(data, localUp, pinataUp) IN
  /\ unitBundle' = data
  /\ unitUpload' = [localUp |-> localUp, pinataUp |-> pinataUp, result |-> result]
  /\ ipfsStore' = IF result.ok THEN (result.cid :> result.content) @@ ipfsStore
                  ELSE ipfsStore
  /\ UNCHANGED <<ledgerVars, configVars, runVars, unitOcrText, unitSttText, unitPython,
                 unitResult, unitFetch, lastCall>>

Fetch(cid, up) ==
  /\ unitFetch' = [cid |-> cid, up |-> up, result |-> fetchFromIPFS(cid, up)]
  /\ UNCHANGED <<ledgerVars, configVars, ipfsStore, runVars, unitOcrText, unitSttText,
                 unitPython, unitResult, unitBundle, unitUpload, lastCall>>

(***************************************************************************)
(* Transactions sent to FIRRegistry by any account, and the query          *)
(* endpoints of the server                                                 *)
(***************************************************************************)
MaxRecords == 2

MaxTx == 3

\* an account with VICTIM_ROLE, one with GOV_ROLE, one with no role
Senders == {Wallet, GovWallet, "0xA1"}

PublishedBundle == CHOOSE b \in Bundles : b.similarityScore = 19

EmptyCid == <<>>

CallCids == {EmptyCid, CidOf(JSONStringify(PublishedBundle))}

CallScores == {74, 75, 101}

\* what the contract stores, as a later call finds it
LedgerState == [firCounter |-> firCounter, firs |-> firs, victimFIRs |-> victimFIRs,
                roles |-> roles]

\* a createFIR transaction; a revert leaves the state as it was
CallCreateFIR(sender, ipfsCid, similarityScore) ==
  LET reverts == createFIRReverts(sender, ipfsCid, similarityScore)
      call == [op |-> "createFIR", sender |-> sender, ipfsCid |-> ipfsCid,
               similarityScore |-> similarityScore, before |-> LedgerState]
  IN  /\ reverts \/ (firCounter < MaxRecords /\ txCount < MaxTx)
      /\ IF reverts
           THEN /\ UNCHANGED ledgerVars
                /\ lastCall' = call @@ [reverted |-> TRUE]
           ELSE /\ ContractCreateFIR(sender, ipfsCid, similarityScore)
                /\ lastCall' = call @@ [reverted |-> FALSE, returned |-> firCounter']
      /\ UNCHANGED <<configVars, ipfsStore, runVars, unitOcrText, unitSttText, unitPython,
                     unitResult, unitBundle, unitUpload, unitFetch>>

\* a setVerification transaction
CallSetVerification(sender, id, verified) ==
  LET reverts == setVerificationReverts(sender, id)
      call == [op |-> "setVerification", sender |-> sender, id |-> id,
               verified |-> verified, before |-> LedgerState]
  IN  /\ reverts \/ txCount < MaxTx
      /\ IF reverts
           THEN /\ UNCHANGED ledgerVars
                /\ lastCall' = call @@ [reverted |-> TRUE]
           ELSE /\ ContractSetVerification(id, verified)
                /\ lastCall' = call @@ [reverted |-> FALSE]
      /\ UNCHANGED <<configVars, ipfsStore, runVars, unitOcrText, unitSttText, unitPython,
                     unitResult, unitBundle, unitUpload, unitFetch>>

\* FIRRegistry.getFIR: onlyValidFIR reverts for an id without a record
ContractGetFIR(id) ==
  IF FIRExists(id) THEN [ok |-> TRUE, fir |-> firs[id]]
  ELSE [ok |-> FALSE, error |-> "FIR does not exist"]

\* blockchainService.getFIR(firId): the struct as an object, timestamp and
\* similarityScore as decimal strings; a revert is rethrown
getFIR(firId) ==
  LET got == ContractGetFIR(firId) IN
  IF got.ok
    THEN [ok |-> TRUE,
          fir |-> [id |-> firId,
                   victim |-> got.fir.victim,
                   ipfsCid |-> got.fir.ipfsCid,
                   timestamp |-> ToString(got.fir.timestamp),
                   verified |-> got.fir.verified,
                   exists |-> got.fir.exists,
                   similarityScore |-> ToString(got.fir.similarityScore)]]
    ELSE got

\* app.get('/api/firs/:id') for parseInt(id) = id
GetFIRResponse(id, up) ==
  LET got == getFIR(id) IN
  IF ~got.ok
    THEN \* blockchainService.getFIR rethrows, the handler's catch answers
         [status |-> 500, error |-> "Failed to fetch FIR"]
  ELSE IF ~got.fir.exists
    THEN [status |-> 404, error |-> "FIR not found"]
  ELSE LET ipfsData == fetchFromIPFS(got.fir.ipfsCid, up) IN
       IF ipfsData.ok
         THEN [status |-> 200, success |-> TRUE, fir |-> ipfsData.value @@ got.fir]
         ELSE [status |-> 500, error |-> "Failed to fetch FIR"]

HttpGetFIR(id, up) ==
  /\ lastCall' = [op |-> "GET /api/firs/:id", id |-> id,
                  response |-> GetFIRResponse(id, up)]
  /\ UNCHANGED <<ledgerVars, configVars, ipfsStore, runVars, unitOcrText, unitSttText,
                 unitPython, unitResult, unitBundle, unitUpload, unitFetch>>

\* the verified field of a request body, as the JSON token it was sent as
JsonBooleans == {"true", "false"}

\* app.post('/api/firs/:id/verify') for parseInt(id) = id: the body's verified
\* field and whether its signature field is one the government made. The
\* signature is read from the body and not used; blockchainService.setVerification
\* signs the transaction with this.govWallet.
VerifyResponse(id, verified, governmentSignature) ==
  IF verified \notin JsonBooleans
    THEN [status |-> 400, error |-> "verified field must be a boolean"]
  ELSE IF setVerificationReverts(GovWallet, id)
    THEN [status |-> 500, error |-> "Failed to verify FIR"]
  ELSE [status |-> 200, success |-> TRUE, firId |-> id, verified |-> (verified = "true"),
        txHash |-> <<"tx", txCount + 1>>]

HttpVerify(id, verified, governmentSignature) ==
  LET res == VerifyResponse(id, verified, governmentSignature) IN
  /\ res.status = 200 => txCount < MaxTx
  /\ IF res.status = 200
       THEN ContractSetVerification(id, verified = "true")
       ELSE UNCHANGED ledgerVars
  /\ lastCall' = [op |-> "POST /api/firs/:id/verify", id |-> id, verified |-> verified,
                  governmentSignature |-> governmentSignature, before |-> LedgerState,
                  response |-> res]
  /\ UNCHANGED <<configVars, ipfsStore, runVars, unitOcrText, unitSttText, unitPython,
                 unitResult, unitBundle, unitUpload, unitFetch>>

\* require(_limit > 0 && _limit <= 100, "Invalid limit")
MaxStatusLimit == 100

\* blockchainService.getAllFIRs(limit, offset): records offset+1 .. offset+actualLimit,
\* each fetched with getFIR, a failing getFIR skipped
getAllFIRs(limit, offset) ==
  IF Ge(offset, firCounter) THEN <<>>
  ELSE IF IsNaN(limit) \/ IsNaN(offset) THEN <<>>      \* the loop condition is false
  ELSE LET actualLimit == Min(limit, firCounter - offset)
           ids == [k \in 1..Max(0, actualLimit) |-> offset + k]
           found == SelectSeq(ids, LAMBDA i : getFIR(i).ok /\ getFIR(i).fir.exists)
       IN  [k \in 1..Len(found) |-> getFIR(found[k]).fir]

\* One of the two loops of FIRRegistry.getFIRsByStatus over the ids lo..hi,
\* `for (i = 1; i <= total && resultCount < bound; i++)`: a matching record is
\* skipped while currentOffset > 0, then counted and, in the second loop
\* (store), written to result. The range is walked in halves, the second half
\* only while resultCount < bound.
RECURSIVE StatusLoop(_, _, _, _, _, _)
StatusLoop(lo, hi, verified, bound, store, st) ==
  IF lo > hi THEN st
  ELSE IF lo = hi
    THEN IF st.resultCount < bound /\ firs[lo].verified = verified
           THEN IF st.currentOffset > 0
                  THEN [st EXCEPT !.currentOffset = @ - 1]
                  ELSE [st EXCEPT !.resultCount = @ + 1,
                                  !.result = IF store THEN Append(@, firs[lo]) ELSE @]
           ELSE st
  ELSE LET mid == (lo + hi) \div 2
           half == StatusLoop(lo, mid, verified, bound, store, st)
       IN  IF half.resultCount < bound
             THEN StatusLoop(mid + 1, hi, verified, bound, store, half)
             ELSE half

\* a getFIRsByStatus that does not skip the first _offset matching records
ContractGetFIRsByStatusFromStart(verified, limit, offset) ==
  IF ~(limit > 0 /\ limit <= 100)
    THEN [ok |-> FALSE, error |-> "Invalid limit"]
  ELSE LET start == [currentOffset |-> 0, resultCount |-> 0, result |-> <<>>]
           counted == StatusLoop(1, firCounter, verified, limit, FALSE, start)
       IN  [ok |-> TRUE,
            firs |-> StatusLoop(1, firCounter, verified, counted.resultCount, TRUE,
                                start).result]

\* FIRRegistry.getFIRsByStatus(_verified, _limit, _offset), a view function
ContractGetFIRsByStatus(verified, limit, offset) ==
  IF ~(limit > 0 /\ limit <= MaxStatusLimit)
    THEN [ok |-> FALSE, error |-> "Invalid limit"]
  ELSE LET start == [currentOffset |-> offset, resultCount |-> 0, result |-> <<>>]
           counted == StatusLoop(1, firCounter, verified, limit, FALSE, start)
       IN  [ok |-> TRUE,
            firs |-> StatusLoop(1, firCounter, verified, counted.resultCount, TRUE,
                                start).result]

\* the object blockchainService.getFIRsByStatus makes of a returned struct:
\* timestamp and similarityScore as decimal strings, no exists field
FormatFIR(fir) ==
  [id |-> fir.id,
   victim |-> fir.victim,
   ipfsCid |-> fir.ipfsCid,
   timestamp |-> ToString(fir.timestamp),
   verified |-> fir.verified,
   similarityScore |-> ToString(fir.similarityScore)]

\* blockchainService.getFIRsByStatus(verified, limit, offset): ethers rejects
\* an argument that is NaN or negative before the call is made
getFIRsByStatus(verified, limit, offset) ==
  IF ~EncodableUint(limit) \/ ~EncodableUint(offset)
    THEN [ok |-> FALSE, error |-> "invalid BigNumberish"]
  ELSE LET got == ContractGetFIRsByStatus(verified, limit, offset) IN
       IF got.ok
         THEN [ok |-> TRUE, firs |-> [k \in 1..Len(got.firs) |-> FormatFIR(got.firs[k])]]
         ELSE got

\* app.get('/api/firs') for verified undefined ("none"), 'true' or 'false', and
\* parseInt(limit) = limit, parseInt(offset) = offset
ListFIRsResponse(verified, limit, offset) ==
  LET ok(list) == [status |-> 200, success |-> TRUE, firs |-> list, total |-> Len(list),
                   limit |-> limit, offset |-> offset]
  IN  IF verified = "none" THEN ok(getAllFIRs(limit, offset))
      ELSE LET got == getFIRsByStatus(verified = "true", limit, offset) IN
           IF got.ok THEN ok(got.firs)
           ELSE [status |-> 500, error |-> "Failed to fetch FIRs"]

HttpListFIRs(verified, limit, offset) ==
  /\ lastCall' = [op |-> "GET /api/firs", verified |-> verified, limit |-> limit,
                  offset |-> offset, response |-> ListFIRsResponse(verified, limit, offset)]
  /\ UNCHANGED <<ledgerVars, configVars, ipfsStore, runVars, unitOcrText, unitSttText,
                 unitPython, unitResult, unitBundle, unitUpload, unitFetch>>

\* ledgers holding n records, every second one below the contract's verification score
LedgerSizes == {0, 3, 101}

SeededFIR(i) ==
  [id |-> i,
   victim |-> Wallet,
   ipfsCid |-> CidOf(JSONStringify(PublishedBundle)),
   timestamp |-> i,
   verified |-> (i % 2 = 1),
   exists |-> TRUE,
   similarityScore |-> IF i % 2 = 1 THEN 75 ELSE 74]

QueryLimits == {NaN, 0, 1, 10, 100, 101, 1000}

QueryOffsets == {NaN, 0, 1, 100}

(***************************************************************************)
(* MLService.calculateSimilarity called on its own, for the scorer's       *)
(* properties                                                              *)
(***************************************************************************)
Vocabulary ==
  {<<"t","h","e">>, <<"c","a","t">>, <<"d","o","g">>, <<"C","a","t",".">>}

\* texts of at most n words of the vocabulary
TextsUpTo(n) ==
  {JoinWords(ws) : ws \in UNION {[1..k -> Vocabulary] : k \in 0..n}}

\* a written complaint and the spoken account of it
ExampleOcrText ==
  <<"t","h","e","f","t"," ","o","f"," ","m","o","t","o","r","c","y","c","l","e"," ","n",
    "e","a","r"," ","m","a","i","n"," ","m","a","r","k","e","t">>

ExampleSttText ==
  <<"t","h","e"," ","t","h","e","f","t"," ","o","f"," ","a"," ","m","o","t","o","r","c",
    "y","c","l","e"," ","n","e","a","r"," ","t","h","e"," ","m","a","i","n"," ","m","a",
    "r","k","e","t">>

ScoreTexts(py) ==
  /\ unitResult = NULL
  /\ unitPython' = py
  /\ unitResult' = calculateSimilarity(unitOcrText, unitSttText, py)
  /\ UNCHANGED <<ledgerVars, configVars, ipfsStore, runVars, unitOcrText, unitSttText,
                 unitBundle, unitUpload, unitFetch, lastCall>>

(***************************************************************************)
(* Specifications                                                          *)
(***************************************************************************)
\* The contract is deployed, the service wallet holds VICTIM_ROLE and the
\* government wallet GOV_ROLE; startServer has initialized every service.
InitLedger ==
  /\ firCounter = 0
  /\ firs = <<>>
  /\ victimFIRs = [a \in Addresses |-> <<>>]
  /\ roles = [DEFAULT_ADMIN_ROLE |-> {Deployer},
              GOV_ROLE |-> {Deployer, GovWallet},
              VICTIM_ROLE |-> {Wallet}]
  /\ txCount = 0

\* IPFSService.initialize leaves client set, or null with Pinata configured;
\* with neither it throws and the server does not start
InitConfig ==
  /\ ipfsClient \in BOOLEAN
  /\ pinataConfigured \in BOOLEAN
  /\ ipfsClient \/ pinataConfigured
  /\ sttClient \in BOOLEAN
  /\ SIMILARITY_THRESHOLD \in {NaN, 90}
  /\ ipfsStore = <<>>

InitRun ==
  /\ runs = 0
  /\ pc = "Idle"
  /\ hung = FALSE
  /\ victimAddress = NULL
  /\ files = {}
  /\ ocrResult = NULL
  /\ sttResult = NULL
  /\ similarityResult = NULL
  /\ firData = NULL
  /\ ipfsResult = NULL
  /\ blockchainResult = NULL
  /\ response = NULL
  /\ started = <<>>
  /\ ledgerWrites = <<>>
  /\ failedStage = "none"
  /\ unlinkFailed = FALSE
  /\ clientConnected = FALSE

Init ==
  /\ InitLedger
  /\ InitConfig
  /\ InitRun
  /\ unitOcrText = <<>>
  /\ unitSttText = <<>>
  /\ unitPython = NULL
  /\ unitResult = NULL
  /\ unitBundle = NULL
  /\ unitUpload = NULL
  /\ unitFetch = NULL
  /\ lastCall = NULL

Next ==
  \/ \E address \in Claimants, hasImage, hasAudio \in BOOLEAN :
       Submit(address, hasImage, hasAudio)
  \/ \E preprocessed, unlinkProcessed \in BOOLEAN, recognize \in {"ok", "throws", "hangs"},
        raw \in OcrRawTexts, u \in UnlinkOutcomes :
       Extract(preprocessed, recognize, raw, unlinkProcessed, u)
  \/ \E recognize \in {"ok", "throws", "empty"}, recognition \in SttRecognitions,
        u \in UnlinkOutcomes :
       Transcribe(recognize, recognition, u)
  \/ \E py \in PythonOutcomes, pythonHangs \in BOOLEAN : Score(py, pythonHangs)
  \/ \E storage \in {"ok", "fails", "hangs"}, u \in UnlinkOutcomes : Publish(storage, u)
  \/ \E rpc \in RpcOutcomes, u \in UnlinkOutcomes : Commit(rpc, u)
  \/ \E rpc \in RpcOutcomes, u \in UnlinkOutcomes : AutoVerify(rpc, u)
  \/ \E u, c \in UnlinkOutcomes : Cleanup(u, c)

Spec == Init /\ [][Next]_vars

ScorerInit ==
  /\ InitLedger
  /\ ipfsClient = TRUE
  /\ pinataConfigured = FALSE
  /\ sttClient = TRUE
  /\ SIMILARITY_THRESHOLD = NaN
  /\ ipfsStore = <<>>
  /\ InitRun
  /\ \/ /\ unitOcrText \in TextsUpTo(MaxWords)
        /\ unitSttText \in TextsUpTo(MaxWords)
     \/ /\ unitOcrText = ExampleOcrText
        /\ unitSttText = ExampleSttText
  /\ unitPython = NULL
  /\ unitResult = NULL
  /\ unitBundle = NULL
  /\ unitUpload = NULL
  /\ unitFetch = NULL
  /\ lastCall = NULL

\* the server has started with the local node or with Pinata only
StorageInit ==
  /\ InitLedger
  /\ InitConfig
  /\ InitRun
  /\ unitOcrText = <<>>
  /\ unitSttText = <<>>
  /\ unitPython = NULL
  /\ unitResult = NULL
  /\ unitBundle = NULL
  /\ unitUpload = NULL
  /\ unitFetch = NULL
  /\ lastCall = NULL

StorageNext ==
  \/ \E data \in Bundles, localUp, pinataUp \in BOOLEAN : Upload(data, localUp, pinataUp)
  \/ \E data \in Bundles, up \in BOOLEAN : Fetch(CidOf(JSONStringify(data)), up)

StorageSpec == StorageInit /\ [][StorageNext]_vars

\* the contract is deployed and empty; the bundle whose identifier the calls
\* use has been published on the local node
LedgerInit ==
  /\ InitLedger
  /\ ipfsClient = TRUE
  /\ pinataConfigured = FALSE
  /\ sttClient = TRUE
  /\ SIMILARITY_THRESHOLD = NaN
  /\ ipfsStore = (CidOf(JSONStringify(PublishedBundle)) :> JSONStringify(PublishedBundle))
  /\ InitRun
  /\ unitOcrText = <<>>
  /\ unitSttText = <<>>
  /\ unitPython = NULL
  /\ unitResult = NULL
  /\ unitBundle = NULL
  /\ unitUpload = NULL
  /\ unitFetch = NULL
  /\ lastCall = NULL

LedgerNext ==
  \/ \E sender \in Senders, ipfsCid \in CallCids, similarityScore \in CallScores :
       CallCreateFIR(sender, ipfsCid, similarityScore)
  \/ \E sender \in Senders, id \in 0..(MaxRecords + 1), verified \in BOOLEAN :
       CallSetVerification(sender, id, verified)
  \/ \E id \in 0..(MaxRecords + 1), up \in BOOLEAN : HttpGetFIR(id, up)
  \/ \E id \in 0..(MaxRecords + 1), verified \in JsonBooleans \cup {"\"yes\""},
        governmentSignature \in BOOLEAN :
       HttpVerify(id, verified, governmentSignature)

LedgerSpec == LedgerInit /\ [][LedgerNext]_vars

\* the ledger after n submissions
ListInit ==
  /\ \E n \in LedgerSizes :
       /\ firCounter = n
       /\ firs = [i \in 1..n |-> SeededFIR(i)]
       /\ victimFIRs = [a \in Addresses |-> IF a = Wallet THEN [i \in 1..n |-> i] ELSE <<>>]
       /\ txCount = n
  /\ roles = [DEFAULT_ADMIN_ROLE |-> {Deployer},
              GOV_ROLE |-> {Deployer, GovWallet},
              VICTIM_ROLE |-> {Wallet}]
  /\ ipfsClient = TRUE
  /\ pinataConfigured = FALSE
  /\ sttClient = TRUE
  /\ SIMILARITY_THRESHOLD = NaN
  /\ ipfsStore = (CidOf(JSONStringify(PublishedBundle)) :> JSONStringify(PublishedBundle))
  /\ InitRun
  /\ unitOcrText = <<>>
  /\ unitSttText = <<>>
  /\ unitPython = NULL
  /\ unitResult = NULL
  /\ unitBundle = NULL
  /\ unitUpload = NULL
  /\ unitFetch = NULL
  /\ lastCall = NULL

ListNext ==
  \E verified \in {"none", "true", "false"}, limit \in QueryLimits, offset \in QueryOffsets :
    HttpListFIRs(verified, limit, offset)

ListSpec == ListInit /\ [][ListNext]_vars

\* one submission, with the client free to close the connection and the
\* government wallet free to decide on a record while the submission is handled
InterferenceNext ==
  \/ Next
  \/ ClientDisconnects
  \/ \E id \in DOMAIN firs, verified \in BOOLEAN :
       CallSetVerification(GovWallet, id, verified)

InterferenceSpec == Init /\ [][InterferenceNext]_vars

ScorerNext == \E py \in PythonOutcomes : ScoreTexts(py)

ScorerSpec == ScorerInit /\ [][ScorerNext]_vars

(***************************************************************************)
(* Properties of one run of the submission pipeline                        *)
(***************************************************************************)
WritesOf(op) == {i \in DOMAIN ledgerWrites : ledgerWrites[i].op = op}

InFlight == {"Extracting", "Transcribing", "Scoring", "Publishing", "Committing",
             "AutoVerifying", "Cleanup"}

\* C1: one run of the pipeline sends at most one createFIR transaction,
\* whichever stage fails, and a run that reaches Done has sent exactly one,
\* which created exactly one record.
C1_AtMostOneCreateRecord ==
  /\ Cardinality(WritesOf("createFIR")) <= 1
  /\ firCounter <= runs
  /\ pc = "Done" =>
       /\ Cardinality(WritesOf("createFIR")) = 1
       /\ FIRExists(blockchainResult.firId)
       /\ firs[blockchainResult.firId].ipfsCid = ipfsResult.cid

C1_Witness ==
  /\ pc = "Done"
  /\ Cardinality(WritesOf("createFIR")) = 1
  /\ firCounter = 1

\* C2: with the default threshold in force, the pipeline calls
\* setVerification exactly when createFIR has returned and the score is at
\* least 75; every setVerification it sends carries verified = true for the
\* record just created, and it sends at most one.
C2_AutoVerifyIffScoreReachesThreshold ==
  Threshold = DefaultThreshold =>
    /\ ("setVerified" \in Range(started)) <=>
         (blockchainResult # NULL /\ Ge(similarityResult.score, DefaultThreshold))
    /\ Cardinality(WritesOf("setVerification")) <= 1
    /\ \A i \in WritesOf("setVerification") :
         /\ ledgerWrites[i].verified = TRUE
         /\ "setVerified" \in Range(started)
         /\ ledgerWrites[i].id = blockchainResult.firId

C2_Witness ==
  /\ Threshold = DefaultThreshold
  /\ similarityResult # NULL
  /\ similarityResult.score = DefaultThreshold
  /\ WritesOf("setVerification") # {}
  /\ pc = "Done"

C4_NoTemporaryFileRemains ==
  (pc \in {"Done", "Failed"} /\ ~unlinkFailed) => files = {}

C5_Order ==
  <<"extraction", "transcription", "scoring", "publishing", "createRecord", "setVerified">>

C5_StartedUpTo(n) == started = SubSeq(C5_Order, 1, n)

\* C5: the stages start in the order extraction, transcription, scoring,
\* publishing, createRecord, setVerified; a stage starts only when its
\* predecessor has returned its output; after the first failure no later
\* stage starts; no stage is skipped on the way to Done.
C5_StagesRunInOrder ==
  /\ \E n \in 0..Len(C5_Order) : C5_StartedUpTo(n)
  /\ pc = "Extracting" => C5_StartedUpTo(1)
  /\ pc = "Transcribing" => C5_StartedUpTo(2)
  /\ pc = "Scoring" => C5_StartedUpTo(3)
  /\ pc = "Publishing" => C5_StartedUpTo(4)
  /\ pc = "Committing" => C5_StartedUpTo(5)
  /\ pc = "AutoVerifying" => C5_StartedUpTo(6)
  /\ pc \in {"Cleanup", "Done"} => (C5_StartedUpTo(5) \/ C5_StartedUpTo(6))
  /\ Len(started) >= 2 <=> ocrResult # NULL
  /\ Len(started) >= 3 <=> sttResult # NULL
  /\ Len(started) >= 4 <=> (similarityResult # NULL /\ firData # NULL)
  /\ Len(started) >= 5 <=> ipfsResult # NULL
  /\ pc \in {"AutoVerifying", "Cleanup", "Done"} => blockchainResult # NULL
  /\ Len(started) >= 6 => blockchainResult # NULL
  /\ failedStage # "none" => pc = "Failed"
  /\ pc = "Failed" =>
       \/ failedStage = started[Len(started)]
       \/ failedStage = "cleanup" /\ Len(started) >= 5 /\ blockchainResult # NULL

C5_Witness ==
  /\ pc = "Done"
  /\ C5_StartedUpTo(6)

\* C6: every run that has started goes on to Done or Failed, also when an
\* external call does not answer: a run in flight always has a next step to
\* take (each step moves the run one stage on, so a run that is never stuck
\* ends within seven steps).
C6_EveryRunEnds ==
  pc \in InFlight => ENABLED Next

\* C7: without a speech-to-text client the transcriber returns the
\* placeholder with provider "fallback" and confidence at most 50,
\* transcription is never the stage that fails, and a run that reaches Done
\* carries the placeholder and has created its ledger record.
C7_FallbackTranscriptionNeverFails ==
  ~sttClient =>
    /\ failedStage # "transcription"
    /\ pc = "Transcribing" => \E u \in UnlinkOutcomes, r \in SttRecognitions :
                                ENABLED (Transcribe("throws", r, u) /\ pc' = "Scoring")
    /\ sttResult # NULL =>
         /\ sttResult.provider = "fallback"
         /\ sttResult.confidence <= MockConfidence
         /\ sttResult.text = mockText
    /\ pc = "Done" =>
         /\ response.sttText = mockText
         /\ FIRExists(blockchainResult.firId)

C7_Witness ==
  /\ ~sttClient
  /\ pc = "Done"
  /\ sttResult.provider = "fallback"
  /\ FIRExists(response.firId)

\* C8: the result of a run that used the fallback transcriber or the local
\* scorer carries the provider and method tags that say so.
C8_ResultCarriesDegradedTags ==
  pc = "Done" =>
    /\ sttResult.provider = "fallback" =>
         ("provider" \in DOMAIN response /\ response.provider = "fallback")
    /\ similarityResult.details.method = "nlp-fallback" =>
         ("method" \in DOMAIN response /\ response.method = "nlp-fallback")

(***************************************************************************)
(* Properties of the local scorer                                          *)
(***************************************************************************)
UsedLocalScorer == unitResult # NULL /\ unitResult.details.method = "nlp-fallback"

Letters(text) == Range(cleanText(text)) \ {" "}

\* C9: the local scorer gives two identical texts the score 100 (here only
\* asked of texts that are not blank).
C9_IdenticalTextsScore100 ==
  (UsedLocalScorer /\ unitOcrText = unitSttText /\ Letters(unitOcrText) # {})
  => unitResult.score = 100

\* C10: the local scorer gives the score 0 to two texts that share no word
\* and no character (here only asked of texts that are not blank).
C10_DisjointTextsScore0 ==
  ( /\ UsedLocalScorer
    /\ Letters(unitOcrText) # {} /\ Letters(unitSttText) # {}
    /\ Range(tokenize(cleanText(unitOcrText))) \cap Range(tokenize(cleanText(unitSttText))) = {}
    /\ Letters(unitOcrText) \cap Letters(unitSttText) = {} )
  => unitResult.score = 0

Words(text) == removeStopWords(tokenize(toLowerCase(cleanText(text))))

\* C11: the local scorer gives (a, b) and (b, a) the same score, and each of
\* its three measures is the same for both orders (the Jaccard quotient, the
\* cosine, the edit distance); a score that is NaN one way is NaN the other.
C11_ScoreSymmetric ==
  UsedLocalScorer =>
    LET a == cleanText(unitOcrText)
        b == cleanText(unitSttText)
        swapped == calculateSimilarityFallback(b, a)
    IN  /\ unitResult.score = swapped.score
        /\ calculateJaccardSimilarity(Words(unitOcrText), Words(unitSttText))
             = calculateJaccardSimilarity(Words(unitSttText), Words(unitOcrText))
        /\ unitResult.details.jaccardSimilarity = swapped.jaccardSimilarity
        /\ unitResult.details.cosineSimilarity = swapped.cosineSimilarity
        /\ unitResult.details.levenshteinDistance = swapped.levenshteinDistance
        /\ calculateLevenshteinDistance(a, b) = calculateLevenshteinDistance(b, a)

C11_Witness ==
  /\ UsedLocalScorer
  /\ Len(unitOcrText) # Len(unitSttText)
  /\ unitResult.score > 0
  /\ unitResult.score < 100

\* C12: the score calculateSimilarity returns is an integer from 0 to 100,
\* whichever scorer produced it (here only asked of texts that are not blank).
C12_ScoreWithinRange ==
  (unitResult # NULL /\ Letters(unitOcrText) # {} /\ Letters(unitSttText) # {})
  => unitResult.score \in 0..100

\* the process could not be started, exited with a non-zero code, or printed
\* something that holds no similarity_score
NoScoreFromPython(py) ==
  PythonRejects(py) \/ ~py.hasScore

\* C13: when the external scoring process yields no score, calculateSimilarity
\* returns the result of the local scorer, not one built from the process's output.
C13_NoExternalScoreMeansLocalResult ==
  (unitResult # NULL /\ NoScoreFromPython(unitPython)) =>
    /\ unitResult.details.method = "nlp-fallback"
    /\ unitResult.score =
         calculateSimilarityFallback(cleanText(unitOcrText), cleanText(unitSttText)).score

(***************************************************************************)
(* Properties of the evidence store                                        *)
(***************************************************************************)
\* C14: fetching by the identifier that uploadToIPFS returned for a bundle
\* succeeds and gives back that bundle, with the local node and with the
\* pinning API and gateway alike (asked only when the node or gateway answers).
C14_FetchReturnsPublishedBundle ==
  (unitFetch # NULL /\ unitFetch.up /\ unitFetch.cid \in DOMAIN ipfsStore) =>
    /\ unitFetch.result.ok
    /\ \A b \in Bundles :
         CidOf(JSONStringify(b)) = unitFetch.cid => unitFetch.result.value = b

\* C15: when the local node does not answer an upload but Pinata credentials
\* are configured and Pinata answers, uploadToIPFS returns the identifier of
\* pinned content.
C15_PublishFallsBackToPinata ==
  (unitUpload # NULL /\ ~unitUpload.localUp /\ pinataConfigured /\ unitUpload.pinataUp) =>
    /\ unitUpload.result.ok
    /\ unitUpload.result.cid \in DOMAIN ipfsStore

(***************************************************************************)
(* Properties of the ledger and of the query endpoints                     *)
(***************************************************************************)
LastCallIs(op) == lastCall # NULL /\ lastCall.op = op

\* C16: a createFIR with an empty content identifier or a score above 100
\* fails and leaves the counter, every record and every per-claimant id list
\* as they were.
C16_InvalidCreateChangesNothing ==
  ( /\ LastCallIs("createFIR")
    /\ (Len(lastCall.ipfsCid) = 0 \/ lastCall.similarityScore > 100) )
  => /\ lastCall.reverted
     /\ LedgerState = lastCall.before

C16_Witness ==
  /\ LastCallIs("createFIR")
  /\ lastCall.sender = Wallet
  /\ Len(lastCall.ipfsCid) > 0
  /\ lastCall.similarityScore = 101
  /\ lastCall.reverted
  /\ firCounter = 1

\* C17: a setVerification on an id without a record (0, or above the number
\* of records) fails for true and for false and changes nothing in the ledger.
C17_VerifyingUnknownIdChangesNothing ==
  ( /\ LastCallIs("setVerification")
    /\ lastCall.id \notin 1..lastCall.before.firCounter )
  => /\ lastCall.reverted
     /\ LedgerState = lastCall.before

C17_Witness ==
  /\ LastCallIs("setVerification")
  /\ lastCall.sender = GovWallet
  /\ lastCall.id = firCounter + 1
  /\ firCounter = 1
  /\ lastCall.reverted

\* C18: a request for one record whose id has no record is answered with
\* 404 'FIR not found', not with a generic failure.
C18_UnknownIdIsNotFound ==
  (LastCallIs("GET /api/firs/:id") /\ ~FIRExists(lastCall.id)) =>
    /\ lastCall.response.status = 404
    /\ lastCall.response.error = "FIR not found"

\* C19: ids are 1, 2, 3, ... in creation order: a successful createFIR
\* returns the former number of records plus one and leaves the older records
\* as they were, and record i exists exactly for 1 <= i <= getTotalFIRs().
C19_IdsAreSequential ==
  /\ \A i \in 0..(firCounter + 1) : FIRExists(i) <=> (1 <= i /\ i <= firCounter)
  /\ DOMAIN firs = 1..firCounter
  /\ \A i \in DOMAIN firs : firs[i].id = i
  /\ (LastCallIs("createFIR") /\ ~lastCall.reverted) =>
       /\ lastCall.returned = lastCall.before.firCounter + 1
       /\ firCounter = lastCall.returned
       /\ \A i \in DOMAIN lastCall.before.firs : firs[i] = lastCall.before.firs[i]

C19_Witness ==
  /\ firCounter = 2
  /\ LastCallIs("createFIR")
  /\ lastCall.returned = 2
  /\ firs[1].ipfsCid = firs[2].ipfsCid
  /\ firs[1].similarityScore = firs[2].similarityScore
  /\ firs[1].id # firs[2].id

\* C20: a response of the list endpoint holds at most 100 records, with and
\* without the verified filter, whatever limit is asked for.
C20_ListReturnsAtMost100 ==
  (LastCallIs("GET /api/firs") /\ lastCall.response.status = 200) =>
    Len(lastCall.response.firs) <= 100

\* C24: when the local scorer is given two texts whose word lists, after
\* stop words and words of fewer than three letters are dropped, are the same
\* and not empty, the score is 80 + round(20 * max(0, 100 - d) / 100) for d
\* the edit distance of the two texts; it is at least 80 and reaches the
\* auto-approval threshold of 75.
C24_SameWordsScoreAtLeast80 ==
  (UsedLocalScorer /\ Words(unitOcrText) = Words(unitSttText) /\ Words(unitOcrText) # <<>>) =>
    LET d == calculateLevenshteinDistance(cleanText(unitOcrText), cleanText(unitSttText))
    IN  /\ unitResult.score = 80 + (2 * Max(0, 100 - d) + 5) \div 10
        /\ unitResult.score >= 80
        /\ Ge(unitResult.score, DefaultThreshold)

\* the example of the motorcycle theft: five words in common, ten characters apart
C24_Witness ==
  /\ UsedLocalScorer
  /\ unitOcrText = ExampleOcrText
  /\ unitSttText = ExampleSttText
  /\ Len(Words(unitOcrText)) = 5
  /\ Words(unitOcrText) = Words(unitSttText)
  /\ unitResult.details.levenshteinDistance = 10
  /\ unitResult.score = 98

\* the last call was a setVerification, sent to the contract or through the
\* verify endpoint
SetVerificationCalls == {"setVerification", "POST /api/firs/:id/verify"}

\* C28: no step changes the id, claimant, content identifier, score or
\* timestamp of a record that exists, and no record disappears; a
\* setVerification(id, v) leaves the counter, the per-claimant id lists, the
\* roles and every record other than id as they were.
C28_RecordsChangeOnlyTheirFlag ==
  [][/\ \A i \in DOMAIN firs :
          /\ i \in DOMAIN firs'
          /\ firs'[i] = [firs[i] EXCEPT !.verified = firs'[i].verified]
     /\ lastCall'.op \in SetVerificationCalls =>
          /\ firCounter' = firCounter
          /\ victimFIRs' = victimFIRs
          /\ roles' = roles
          /\ DOMAIN firs' = DOMAIN firs
          /\ \A i \in DOMAIN firs : i # lastCall'.id => firs'[i] = firs[i]]_vars

\* the government has changed the flag of one of two records
C28_Witness ==
  /\ LastCallIs("setVerification")
  /\ ~lastCall.reverted
  /\ firCounter = 2
  /\ firs[lastCall.id].verified # lastCall.before.firs[lastCall.id].verified
  /\ firs[lastCall.id].timestamp = lastCall.before.firs[lastCall.id].timestamp
  /\ \A i \in DOMAIN firs : i # lastCall.id => firs[i] = lastCall.before.firs[i]

\* C22: a request to POST /api/firs/:id/verify that does not carry a valid
\* government signature leaves the ledger as it was: no verified flag, record,
\* counter or role changes.
C22_OnlyGovernmentChangesVerification ==
  (LastCallIs("POST /api/firs/:id/verify") /\ ~lastCall.governmentSignature) =>
    LedgerState = lastCall.before

\* C25: when a run reaches Done, the verified flag of its answer and of the
\* evidence bundle it published is the verified flag of the ledger record it
\* created, whatever the score and the configured threshold.
C25_ResultAgreesWithLedger ==
  pc = "Done" =>
    /\ response.verified = firs[blockchainResult.firId].verified
    /\ ipfsStore[ipfsResult.cid].json.verified = firs[blockchainResult.firId].verified

\* C29: when a run for claimant address A reaches Done with record id r, the
\* victim of ledger record r is A and getVictimFIRs(A) contains r.
C29_RecordBelongsToClaimant ==
  pc = "Done" =>
    /\ firs[blockchainResult.firId].victim = victimAddress
    /\ blockchainResult.firId \in Range(victimFIRs[victimAddress])

\* the step the handler is suspended in
RunningStage == IF pc = "Cleanup" THEN "cleanup" ELSE started[Len(started)]

\* C23: whenever a step of a run throws, the answer is 500 'Failed to process
\* FIR submission' and the exception that reached the catch block is the one
\* of the step that threw, whether or not removing a temporary file fails as
\* well: a disposal failure never replaces the answer or the reported cause.
C23_DisposalFailureDoesNotOverride ==
  [][(pc \in InFlight /\ pc' = "Failed") =>
       /\ response' = ErrorResponse
       /\ failedStage' = RunningStage]_vars

\* uploadToIPFS has thrown and, in the catch block, an fs.unlink was rejected
C23_Witness ==
  /\ pc = "Failed"
  /\ failedStage = "publishing"
  /\ unlinkFailed
  /\ files # {}
  /\ response = ErrorResponse

\* C27: the transcriber is the one chosen when the service was initialized.
\* With the speech client set, a recognize call that throws or returns no
\* result ends the run in Failed at the transcription stage and cannot lead
\* anywhere else; every transcription result then carries provider
\* "google-cloud" and is not the placeholder. Without the client every result
\* carries provider "fallback".
C27_TranscriberChosenAtInitialization ==
  /\ (sttClient /\ pc = "Transcribing" /\ ~hung) =>
       \A recognize \in {"throws", "empty"}, r \in SttRecognitions, u \in UnlinkOutcomes :
         /\ ENABLED (Transcribe(recognize, r, u) /\ pc' = "Failed"
                       /\ failedStage' = "transcription" /\ sttResult' = NULL)
         /\ ~ENABLED (Transcribe(recognize, r, u) /\ pc' # "Failed")
  /\ (sttClient /\ sttResult # NULL) =>
       /\ sttResult.provider = "google-cloud"
       /\ sttResult.text # mockText
  /\ (~sttClient /\ sttResult # NULL) => sttResult.provider = "fallback"

\* the speech client was set and recognize failed: the run has failed at
\* transcription, without a transcription and without a ledger write
C27_Witness ==
  /\ sttClient
  /\ pc = "Failed"
  /\ failedStage = "transcription"
  /\ sttResult = NULL
  /\ ledgerWrites = <<>>

\* the ids of the records whose verified flag is v, in ascending order
MatchingIds(v) == SelectSeq([i \in 1..firCounter |-> i], LAMBDA i : firs[i].verified = v)

\* C30: getFIRsByStatus(v, limit, offset) with 1 <= limit <= 100 returns, in
\* ascending id order, exactly the records with verified = v whose rank among
\* those records is offset + 1 .. offset + limit (fewer or none when not
\* that many match); with limit 0 or above 100 it fails; in both cases the
\* ledger is left as it was.
C30_StatusQueryReturnsTheAskedPage ==
  [][( /\ lastCall'.op = "GET /api/firs"
       /\ lastCall'.verified # "none"
       /\ EncodableUint(lastCall'.limit)
       /\ EncodableUint(lastCall'.offset) ) =>
       LET q == lastCall'
           r == q.response
           matching == MatchingIds(q.verified = "true")
           page == SubSeq(matching, q.offset + 1, Min(Len(matching), q.offset + q.limit))
       IN  /\ UNCHANGED ledgerVars
           /\ IF q.limit \in 1..100
                THEN /\ r.status = 200
                     /\ Len(r.firs) = Len(page)
                     /\ \A k \in 1..Len(page) :
                          /\ r.firs[k] = FormatFIR(firs[page[k]])
                          /\ r.firs[k].verified = (q.verified = "true")
                          /\ k > 1 => r.firs[k - 1].id < r.firs[k].id
                ELSE r.status = 500]_vars

\* of 101 records, 51 verified: the second to the eleventh verified record
C30_Witness ==
  /\ LastCallIs("GET /api/firs")
  /\ firCounter = 101
  /\ lastCall.verified = "true"
  /\ lastCall.limit = 10
  /\ lastCall.offset = 1
  /\ lastCall.response.status = 200
  /\ Len(lastCall.response.firs) = 10
  /\ lastCall.response.firs[1].id = 3
  /\ lastCall.response.firs[10].id = 21

(***************************************************************************)
(* Properties of a submission under interference                           *)
(***************************************************************************)
\* the request is being handled and its client has closed the connection
Cancelled == pc \in InFlight /\ ~clientConnected

\* C21: once an in-flight submission is cancelled (its client has
\* disconnected), the step that ends the running stage starts no further
\* stage, and the only ledger write it may add is the one of the stage that
\* was already running: no createFIR unless createRecord was running, no
\* setVerification unless setVerified was running.
C21_CancelledRunStartsNoStage ==
  [][Cancelled =>
       /\ started' = started
       /\ ledgerWrites' # ledgerWrites => pc \in {"Committing", "AutoVerifying"}]_vars

\* the government wallet has set record id to not verified, and that is
\* still what the ledger says
GovernmentRejected(id) ==
  /\ LastCallIs("setVerification")
  /\ lastCall.sender = GovWallet
  /\ ~lastCall.reverted
  /\ lastCall.id = id
  /\ ~lastCall.verified
  /\ ~firs[id].verified

\* C26: when the government's setVerification(id, false) is confirmed after
\* the run's createFIR for id and before its automatic setVerification(id,
\* true), no step of that run sets the record's verified flag back to true.
C26_PipelineKeepsGovernmentDecision ==
  [][(pc = "AutoVerifying" /\ GovernmentRejected(blockchainResult.firId)
        /\ lastCall' = lastCall) =>
       ~firs'[blockchainResult.firId].verified]_vars
====
